---- MODULE Spec2Model ----
(***************************************************************************)
(* Model of qa/rapi-workload.py: the capability-probing client wrapper     *)
(* (GanetiRapiClientWrapper, InvokerCreator, MockMethod), the job resolver *)
(* (Finish), the scenarios (TestTags, TestGetters, RemoveAllInstances,     *)
(* TestSingleInstance) and the orchestrator (Workload).                    *)
(*                                                                         *)
(* The program is sequential.  Its position is pc (an index into the list  *)
(* of statements being run) together with fpc (the position inside the     *)
(* current call of Finish).  The wrapped RAPI client and the cluster behind *)
(* it are the environment: every forwarded call either raises              *)
(* GanetiApiError or returns a value.                                      *)
(***************************************************************************)
EXTENDS Integers, Sequences, FiniteSets, TLC

VARIABLES
  harness,      \* which entry point runs: "Workload", "TestTags" or "Finish"
  exposed,      \* the operation names the wrapped client (self._client) has
  pc,           \* index of the next statement of the program being run
  fpc,          \* position inside Finish: "idle", "wait" or "status"
  possible_job_id, \* Finish's local variable (line 135)
  success,      \* Finish's local variable (line 148)
  instances,    \* RemoveAllInstances' local variable (lines 224, 228)
  idx,          \* position of the for loop of line 225 in instances
  lease,        \* Workload's locals node, nodes, instance_one, instance_two
  held,         \* the names marked as in use in the qa_config pool
  cluster,      \* the cluster behind the client: tags and instances
  lastjob,      \* the job most recently queued by the cluster
  ret,          \* the last call through the wrapper and what it returned
  fret,         \* the last call of Finish and what it returned
  exc,          \* the exception that left the program, "" if none
  fcalls,       \* the proxy calls made by the current or last Finish
  tagcnt,       \* calls made by the current or last TestTags, per operation
  clean,        \* every client call of the current TestTags run succeeded
  faults,       \* how far the client has departed from a full, obliging one
  tag0,         \* the tag set of the target when the TestTags run began
  probed,       \* the calls TestGetters has made, in order
  removed,      \* the names RemoveAllInstances has passed to DeleteInstance
  out           \* what the last statement printed and invoked, in order

vars == <<harness, exposed, pc, fpc, possible_job_id, success, instances,
          idx, lease, held, cluster, lastjob, ret, fret, exc, fcalls, tagcnt,
          clean, faults, tag0, probed, removed, out>>

----------------------------------------------------------------------------
(* Bounds of the model. *)

\* longest string a test double returns from an operation
MaxStrLen == 2
\* largest number of entries in a job status' "opresult" list
MaxOpResults == 2
\* largest number of departures of a cluster client from one that has every
\* operation and serves every call: operations it lacks, calls it rejects
\* with GanetiApiError, jobs that fail
MaxFaults == 2

----------------------------------------------------------------------------
(* Python values.  Every value is a record of the same shape: a type tag,  *)
(* a number and a sequence of strings (the characters of a str, the items  *)
(* of a list, the "opresult" entries of a dict).                           *)

V(t, n, s) == [t |-> t, n |-> n, s |-> s]
None == V("none", 0, <<>>)
IntV(k) == V("int", k, <<>>)
BoolV(b) == V("bool", IF b THEN 1 ELSE 0, <<>>)
FloatV(f) == V("float", 0, <<f>>)
StrV(cs) == V("str", 0, cs)
ListV(xs) == V("list", 0, xs)
\* a dict; n = 1 iff it has the key "opresult", whose value is the list s
DictV(haskey, xs) == V("dict", IF haskey THEN 1 ELSE 0, xs)
\* an opaque payload (one entry of "opresult", an info structure)
ObjV(x) == V("obj", 0, <<x>>)

Digits == {"4", "2"}
Whitespace == {" "}
Signs == {"-"}
Chars == Digits \cup Whitespace \cup Signs \cup {"x"}

RECURSIVE SeqsUpTo(_, _)
SeqsUpTo(S, n) ==
  IF n = 0 THEN {<<>>}
  ELSE LET shorter == SeqsUpTo(S, n - 1)
       IN shorter \cup {Append(q, c) : q \in shorter, c \in S}

RECURSIVE LStrip(_)
LStrip(cs) ==
  IF cs # <<>> /\ Head(cs) \in Whitespace THEN LStrip(Tail(cs)) ELSE cs

RECURSIVE RStrip(_)
RStrip(cs) ==
  IF cs # <<>> /\ cs[Len(cs)] \in Whitespace
  THEN RStrip(SubSeq(cs, 1, Len(cs) - 1)) ELSE cs

AllDigits(cs) == cs # <<>> /\ \A i \in 1..Len(cs) : cs[i] \in Digits

\* int(str) of Python 2: surrounding whitespace is skipped, one sign is
\* accepted, whitespace may follow the sign, then digits only.
StrIsInt(cs) ==
  LET body == RStrip(LStrip(cs))
      unsigned == IF body # <<>> /\ Head(body) \in Signs
                  THEN LStrip(Tail(body)) ELSE body
  IN AllDigits(unsigned)

\* int(x) replaced by a test for a native integer
int_NativeOnly(v) == IF v.t = "int" THEN "ok" ELSE "TypeError"

\* int(x) of Python 2, as called at line 139: "ok" when it returns, else the
\* exception it raises.  bool is a subclass of int, a finite float is
\* truncated, nan raises ValueError and an infinity raises OverflowError.
int(v) ==
  CASE v.t \in {"int", "bool"} -> "ok"
    [] v.t = "float" -> IF v.s[1] = "nan" THEN "ValueError"
                        ELSE IF v.s[1] = "inf" THEN "OverflowError"
                        ELSE "ok"
    [] v.t = "str" -> IF StrIsInt(v.s) THEN "ok" ELSE "ValueError"
    [] OTHER -> "TypeError"

\* the truth value Python gives v, as tested by "if success" at line 151
Truthy(v) ==
  CASE v.t \in {"int", "bool"} -> v.n # 0
    [] v.t = "float" -> v.s[1] # "0.0"
    [] v.t \in {"str", "list"} -> v.s # <<>>
    [] v.t = "dict" -> v.n = 1
    [] v.t = "none" -> FALSE
    [] OTHER -> TRUE

IsNativeInt(v) == v.t = "int"
IsDigitString(v) == v.t = "str" /\ AllDigits(v.s)

Payloads == {"created-ok", "other"}

\* the values a test double returns from an arbitrary operation
Values ==
  {None, BoolV(TRUE), BoolV(FALSE), IntV(0), IntV(42), IntV(-7)}
  \cup {FloatV(f) : f \in {"0.0", "3.5", "nan", "inf"}}
  \cup {StrV(cs) : cs \in SeqsUpTo(Chars, MaxStrLen)}
  \cup {ListV(<<>>), ListV(<<"42">>), DictV(FALSE, <<>>), DictV(TRUE, <<"42">>)}
  \cup {ObjV(p) : p \in Payloads}

\* the job status dicts a test double returns
StatusValues ==
  {DictV(TRUE, xs) : xs \in SeqsUpTo(Payloads, MaxOpResults)}
  \cup {DictV(FALSE, <<>>)}

----------------------------------------------------------------------------
(* The wrapper: GanetiRapiClientWrapper.__getattr__, InvokerCreator and     *)
(* MockMethod.                                                             *)

TagReadOps == {"GetClusterTags", "GetNodeTags", "GetInstanceTags"}
TagAddOps == {"AddClusterTags", "AddNodeTags", "AddInstanceTags"}
TagDeleteOps == {"DeleteClusterTags", "DeleteNodeTags", "DeleteInstanceTags"}
ReadOps ==
  {"GetVersion", "GetFeatures", "GetOperatingSystems", "GetInfo",
   "GetInstances", "GetJobs", "GetNodes", "GetNetworks", "GetGroups",
   "GetInstance", "GetInstanceConsole"} \cup TagReadOps
JobOps ==
  {"RedistributeConfig", "CreateInstance", "DeleteInstance",
   "GetInstanceInfo", "GrowInstanceDisk", "RebootInstance",
   "ShutdownInstance", "StartupInstance", "ModifyInstance",
   "RenameInstance", "DeactivateInstanceDisks", "ActivateInstanceDisks",
   "RecreateInstanceDisks", "ReinstallInstance"}
  \cup TagAddOps \cup TagDeleteOps
JobPrimitives == {"WaitForJobCompletion", "GetJobStatus"}
OpNames == ReadOps \cup JobOps \cup JobPrimitives

\* names of the wrapper's own attributes and other underscore names
PrivateNames == {"_client", "_missing", "__getattribute__"}
AttrNames == OpNames \cup PrivateNames \cup {"NoSuchOperation"}

\* attr.startswith("_"), line 116
StartsWithUnderscore(attr) == attr \in PrivateNames

\* __getattr__ without the fallback of lines 120-122
GetAttr_NoFallback(ops, attr) ==
  IF StartsWithUnderscore(attr) THEN "own" ELSE "invoker"

\* __getattr__: what a lookup of attr on the wrapper yields for a client
\* exposing the operations in ops.  "own": resolved on the wrapper itself,
\* "invoker": InvokerCreator's decoratedFn around the client's method,
\* "mock": MockMethod.
GetAttr(ops, attr) ==
  IF StartsWithUnderscore(attr) THEN "own"
  ELSE IF attr \in ops THEN "invoker"
  ELSE "mock"

\* the names the normal lookup finds on the wrapper: the attribute set by
\* __init__ (line 107) and what every object has
OwnAttrs == {"_client", "__getattribute__"}

\* __getattr__ with getattr(self, attr) at line 117: the lookup of a name the
\* wrapper lacks enters __getattr__ again, until the interpreter stops it
ObjectGetAttribute_Reenters(attr) ==
  IF attr \in OwnAttrs THEN "found" ELSE "RuntimeError"

\* self.__getattribute__(attr), line 117: the lookup of object, which raises
\* AttributeError for a name the wrapper lacks and does not enter
\* __getattr__
ObjectGetAttribute(attr) ==
  IF attr \in OwnAttrs THEN "found" ELSE "AttributeError"

\* getattr(wrapper, attr): the normal lookup, and __getattr__ (lines
\* 109-122) when that finds nothing
Lookup(ops, attr) ==
  IF attr \in OwnAttrs THEN "found"
  ELSE LET got == GetAttr(ops, attr)
       IN IF got = "own" THEN ObjectGetAttribute(attr) ELSE got

\* MockMethod: absorbs the arguments, does nothing, returns None.
MockMethod(cl, job) ==
  [val |-> None, cl |-> cl, job |-> job, raised |-> FALSE, escapes |-> FALSE,
   out |-> <<>>]

\* decoratedFn that never assigns result (line 88)
decoratedFn_DropsResult(name, r) ==
  [val |-> None, cl |-> r.cl, job |-> r.job, raised |-> r.raised,
   escapes |-> FALSE,
   out |-> <<<<"print", "Using method", name>>, <<"invoke", name>>>>]

\* decoratedFn (lines 84-92) applied to one response r of the client's
\* method: prints, invokes, and turns GanetiApiError into None.
decoratedFn(name, r) ==
  IF r.raised
  THEN [val |-> None, cl |-> r.cl, job |-> r.job, raised |-> TRUE,
        escapes |-> FALSE,
        out |-> <<<<"print", "Using method", name>>, <<"invoke", name>>,
                  <<"print", "RAPI error", name>>>>]
  ELSE [val |-> r.val, cl |-> r.cl, job |-> r.job, raised |-> FALSE,
        escapes |-> FALSE,
        out |-> <<<<"print", "Using method", name>>, <<"invoke", name>>>>]

----------------------------------------------------------------------------
(* The environment: the lease pool of qa_config and the cluster reached    *)
(* through the RAPI client.                                                *)

NodePool == <<"node1", "node2">>
InstancePool == <<"inst1", "inst2">>
\* instances an earlier QA run may have left on the cluster
LeftoverInstances == {"qa-inst1", "qa-inst2"}
ScenarioTags == <<"tag1", "tag2", "tag3">>
\* the tags a cluster may carry before TestTags runs
StartTags == {"tag0", "tag1", "tag3"}

Range(q) == {q[i] : i \in DOMAIN q}

RECURSIVE SetToSeq(_)
SetToSeq(S) ==
  IF S = {} THEN <<>>
  ELSE LET x == CHOOSE y \in S : TRUE IN <<x>> \o SetToSeq(S \ {x})

\* the first k names of the pool that are not in use
FirstFree(pool, used, k) ==
  LET free == SelectSeq(pool, LAMBDA x : x \notin used)
  IN SubSeq(free, 1, k)

NoLease == [node |-> "", nodes |-> <<>>, instance_one |-> "",
            instance_two |-> ""]

\* the job ids a cluster hands out
JobIds == {StrV(<<"4", "2">>)}
NoJob == [queued |-> FALSE, ok |-> FALSE]

InstanceOps ==
  {"CreateInstance", "DeleteInstance", "GetInstanceInfo", "GrowInstanceDisk",
   "RebootInstance", "ShutdownInstance", "StartupInstance", "ModifyInstance",
   "RenameInstance", "DeactivateInstanceDisks", "ActivateInstanceDisks",
   "RecreateInstanceDisks", "ReinstallInstance", "GetInstance",
   "GetInstanceConsole", "GetInstanceTags", "AddInstanceTags",
   "DeleteInstanceTags"}

\* the tags of the entity a tag operation names
TagsOf(cl, name) ==
  IF name \in DOMAIN cl.insts THEN cl.insts[name].tags
  ELSE IF name \in DOMAIN cl.tags THEN cl.tags[name]
  ELSE {}

WithTags(cl, name, ts) ==
  IF name \in DOMAIN cl.insts
  THEN [cl EXCEPT !.insts[name].tags = ts]
  ELSE [cl EXCEPT !.tags[name] = ts]

Without(f, x) == [y \in DOMAIN f \ {x} |-> f[y]]

\* whether the cluster can carry out the request a
Applicable(cl, a) ==
  CASE a.op = "CreateInstance" -> a.name \notin DOMAIN cl.insts
    [] a.op = "RenameInstance" ->
         a.name \in DOMAIN cl.insts /\ a.name2 \notin DOMAIN cl.insts
    [] a.op \in InstanceOps -> a.name \in DOMAIN cl.insts
    [] OTHER -> TRUE

\* the cluster after the job of the request a has run
Effect(cl, a) ==
  CASE a.dry -> cl
    [] a.op \in TagAddOps -> WithTags(cl, a.name, TagsOf(cl, a.name) \cup a.tags)
    [] a.op \in TagDeleteOps -> WithTags(cl, a.name, TagsOf(cl, a.name) \ a.tags)
    [] a.op = "CreateInstance" ->
         [cl EXCEPT !.insts = (a.name :> [up |-> TRUE, tags |-> {}]) @@ @]
    [] a.op = "DeleteInstance" -> [cl EXCEPT !.insts = Without(@, a.name)]
    [] a.op = "RenameInstance" ->
         [cl EXCEPT !.insts = (a.name2 :> @[a.name]) @@ Without(@, a.name)]
    [] a.op \in {"RebootInstance", "StartupInstance"} ->
         [cl EXCEPT !.insts[a.name].up = TRUE]
    [] a.op = "ShutdownInstance" -> [cl EXCEPT !.insts[a.name].up = FALSE]
    [] OTHER -> cl

\* what a read request returns
ReadValue(cl, a) ==
  CASE a.op \in TagReadOps -> ListV(SetToSeq(TagsOf(cl, a.name)))
    [] a.op = "GetInstances" -> ListV(SetToSeq(DOMAIN cl.insts))
    [] a.op = "GetVersion" -> IntV(2)
    [] OTHER -> ObjV(a.op)

Raise(cl, job) ==
  [raised |-> TRUE, val |-> None, cl |-> cl, job |-> job, fault |-> FALSE]
Return(v, cl, job) ==
  [raised |-> FALSE, val |-> v, cl |-> cl, job |-> job, fault |-> FALSE]
Fault(x) == [x EXCEPT !.fault = TRUE]

\* The responses of a client in front of a cluster to the request a.  The
\* cluster serves what it can carry out: a read returns its value, a job
\* request queues a job that takes effect.  It refuses what it cannot carry
\* out: a read is rejected with GanetiApiError, a job fails.  The faults: any
\* request may be rejected with GanetiApiError, and any job may fail.
ClusterResponses(cl, job, a) ==
  LET failed == [queued |-> TRUE, ok |-> FALSE]
      done == [queued |-> TRUE, ok |-> TRUE]
  IN CASE a.op \in ReadOps ->
            IF Applicable(cl, a)
            THEN {Return(ReadValue(cl, a), cl, job), Fault(Raise(cl, job))}
            ELSE {Raise(cl, job)}
       [] a.op \in JobOps ->
            {Fault(Raise(cl, job))} \cup
            IF Applicable(cl, a)
            THEN {Return(j, Effect(cl, a), done) : j \in JobIds} \cup
                 {Fault(Return(j, cl, failed)) : j \in JobIds}
            ELSE {Return(j, cl, failed) : j \in JobIds}
       [] a.op = "WaitForJobCompletion" ->
            IF job.queued
            THEN {Return(BoolV(job.ok), cl, job), Fault(Raise(cl, job))}
            ELSE {Raise(cl, job)}
       [] a.op = "GetJobStatus" ->
            IF job.queued
            THEN {Return(DictV(TRUE, <<IF job.ok THEN "done" ELSE "failed">>),
                         cl, job),
                  Fault(Raise(cl, job))}
            ELSE {Raise(cl, job)}

\* The responses of a test double: any operation raises GanetiApiError or
\* returns any value; the job primitives return what their callers read.
DoubleResponses(cl, job, a) ==
  {Raise(cl, job)} \cup
  CASE a.op = "WaitForJobCompletion" ->
         {Return(BoolV(b), cl, job) : b \in BOOLEAN}
    [] a.op = "GetJobStatus" -> {Return(d, cl, job) : d \in StatusValues}
    [] OTHER -> {Return(v, cl, job) : v \in Values}

----------------------------------------------------------------------------
(* The statements of the program.  A statement is a record: its kind, the  *)
(* client operation it names, the local variable holding the name of the   *)
(* entity it is about (tgt, tgt2), its tags and dry_run and bulk keywords, *)
(* its position in TestTags (tt, 0 outside), the top-level step of         *)
(* Workload it belongs to (sec, 0 outside) and its source line.            *)

Stmt(kind, op, tgt, tgt2, tags, dry, bulk, line) ==
  [kind |-> kind, op |-> op, tgt |-> tgt, tgt2 |-> tgt2, tags |-> tags,
   dry |-> dry, bulk |-> bulk, tt |-> 0, sec |-> 0, line |-> line]

\* client.op(...), a direct call through the wrapper
Call(op, tgt, line) == Stmt("call", op, tgt, "", {}, FALSE, FALSE, line)
\* client.op(bulk=True) without its argument
CallBulk_Plain(op, line) == Stmt("call", op, "", "", {}, FALSE, FALSE, line)
\* client.op(bulk=True)
CallBulk(op, line) == Stmt("call", op, "", "", {}, FALSE, TRUE, line)
\* Finish(client, client.op, ...)
Fin(op, tgt, line) == Stmt("finish", op, tgt, "", {}, FALSE, FALSE, line)
\* Finish(client, client.op, ..., dry_run=True) without the dry_run argument
FinDry_Real(op, tgt, line) == Stmt("finish", op, tgt, "", {}, FALSE, FALSE, line)
\* Finish(client, client.op, ..., dry_run=True)
FinDry(op, tgt, line) == Stmt("finish", op, tgt, "", {}, TRUE, FALSE, line)
FinTags(op, tgt, tags, dry, line) ==
  Stmt("finish", op, tgt, "", tags, dry, FALSE, line)
\* Finish(client, client.RenameInstance, ...) with the two names exchanged
FinRename_Swapped(tgt, tgt2, line) ==
  Stmt("finish", "RenameInstance", tgt2, tgt, {}, FALSE, FALSE, line)
FinRename(tgt, tgt2, line) ==
  Stmt("finish", "RenameInstance", tgt, tgt2, {}, FALSE, FALSE, line)

InSection(k, stmts) == [i \in DOMAIN stmts |-> [stmts[i] EXCEPT !.sec = k]]
Numbered(stmts) == [i \in DOMAIN stmts |-> [stmts[i] EXCEPT !.tt = i]]

\* tags[:1] and tags[1:] of lines 183-188
FirstTag == Range(SubSeq(ScenarioTags, 1, 1))
OtherTags == Range(SubSeq(ScenarioTags, 2, Len(ScenarioTags)))

\* TestTags without the read of line 186
TestTags_SkipsRead(get_fn, add_fn, delete_fn, tgt) ==
  Numbered(<<
    Call(get_fn, tgt, 175),
    FinTags(add_fn, tgt, Range(ScenarioTags), TRUE, 178),
    FinTags(add_fn, tgt, Range(ScenarioTags), FALSE, 179),
    Call(get_fn, tgt, 181),
    FinTags(delete_fn, tgt, FirstTag, TRUE, 183),
    FinTags(delete_fn, tgt, FirstTag, FALSE, 184),
    FinTags(delete_fn, tgt, OtherTags, FALSE, 188),
    Call(get_fn, tgt, 190) >>)

\* TestTags whose last delete is of tags[2:] instead of tags[1:] (line 188)
TestTags_LeavesTag(get_fn, add_fn, delete_fn, tgt) ==
  Numbered(<<
    Call(get_fn, tgt, 175),
    FinTags(add_fn, tgt, Range(ScenarioTags), TRUE, 178),
    FinTags(add_fn, tgt, Range(ScenarioTags), FALSE, 179),
    Call(get_fn, tgt, 181),
    FinTags(delete_fn, tgt, FirstTag, TRUE, 183),
    FinTags(delete_fn, tgt, FirstTag, FALSE, 184),
    Call(get_fn, tgt, 186),
    FinTags(delete_fn, tgt,
            Range(SubSeq(ScenarioTags, 3, Len(ScenarioTags))), FALSE, 188),
    Call(get_fn, tgt, 190) >>)

\* TestTags(client, get_fn, add_fn, delete_fn, *args), lines 175-190
TestTags(get_fn, add_fn, delete_fn, tgt) ==
  Numbered(<<
    Call(get_fn, tgt, 175),
    FinTags(add_fn, tgt, Range(ScenarioTags), TRUE, 178),
    FinTags(add_fn, tgt, Range(ScenarioTags), FALSE, 179),
    Call(get_fn, tgt, 181),
    FinTags(delete_fn, tgt, FirstTag, TRUE, 183),
    FinTags(delete_fn, tgt, FirstTag, FALSE, 184),
    Call(get_fn, tgt, 186),
    FinTags(delete_fn, tgt, OtherTags, FALSE, 188),
    Call(get_fn, tgt, 190) >>)

\* TestGetters(client), lines 200-214
TestGetters ==
  << Call("GetVersion", "", 200),
     Call("GetFeatures", "", 201),
     Call("GetOperatingSystems", "", 202),
     Call("GetInfo", "", 203),
     Call("GetClusterTags", "", 204),
     Call("GetInstances", "", 205),
     CallBulk("GetInstances", 206),
     Call("GetJobs", "", 207),
     CallBulk("GetJobs", 208),
     Call("GetNodes", "", 209),
     CallBulk("GetNodes", 210),
     Call("GetNetworks", "", 211),
     CallBulk("GetNetworks", 212),
     Call("GetGroups", "", 213),
     CallBulk("GetGroups", 214) >>

\* RemoveAllInstances(client), lines 224-229
RemoveAllInstances ==
  << Stmt("list", "GetInstances", "", "", {}, FALSE, FALSE, 224),
     Stmt("foreach", "DeleteInstance", "inst", "", {}, FALSE, FALSE, 226),
     Stmt("recheck", "GetInstances", "", "", {}, FALSE, FALSE, 228) >>

\* TestSingleInstance without the DeleteInstance of line 265
TestSingleInstance_KeepsFirst ==
  << FinDry("CreateInstance", "instance_name", 251),
     FinDry("CreateInstance", "instance_name", 256),
     Fin("CreateInstance", "instance_name", 261),
     Fin("CreateInstance", "instance_name", 268),
     Call("GetInstance", "instance_name", 272),
     Fin("GetInstanceInfo", "instance_name", 274),
     Fin("GetInstanceInfo", "instance_name", 276) >>
  \o TestTags("GetInstanceTags", "AddInstanceTags", "DeleteInstanceTags",
              "instance_name")
  \o << Fin("GrowInstanceDisk", "instance_name", 281),
        FinDry("RebootInstance", "instance_name", 284),
        FinDry("ShutdownInstance", "instance_name", 288),
        FinDry("StartupInstance", "instance_name", 292),
        Fin("RebootInstance", "instance_name", 296),
        Fin("ShutdownInstance", "instance_name", 299),
        Fin("ModifyInstance", "instance_name", 302),
        Fin("ModifyInstance", "instance_name", 305),
        FinRename("instance_name", "alternate_name", 308),
        FinRename("alternate_name", "instance_name", 311),
        Fin("DeactivateInstanceDisks", "instance_name", 313),
        Fin("ActivateInstanceDisks", "instance_name", 315),
        Fin("RecreateInstanceDisks", "instance_name", 317),
        Fin("StartupInstance", "instance_name", 320),
        Call("GetInstanceConsole", "instance_name", 323),
        Fin("ReinstallInstance", "instance_name", 325),
        FinDry("DeleteInstance", "instance_name", 328),
        Fin("DeleteInstance", "instance_name", 330) >>

\* TestSingleInstance(client, instance_name, alternate_name, node_one,
\* node_two), lines 251-330
TestSingleInstance ==
  << FinDry("CreateInstance", "instance_name", 251),
     FinDry("CreateInstance", "instance_name", 256),
     Fin("CreateInstance", "instance_name", 261),
     Fin("DeleteInstance", "instance_name", 265),
     Fin("CreateInstance", "instance_name", 268),
     Call("GetInstance", "instance_name", 272),
     Fin("GetInstanceInfo", "instance_name", 274),
     Fin("GetInstanceInfo", "instance_name", 276) >>
  \o TestTags("GetInstanceTags", "AddInstanceTags", "DeleteInstanceTags",
              "instance_name")
  \o << Fin("GrowInstanceDisk", "instance_name", 281),
        FinDry("RebootInstance", "instance_name", 284),
        FinDry("ShutdownInstance", "instance_name", 288),
        FinDry("StartupInstance", "instance_name", 292),
        Fin("RebootInstance", "instance_name", 296),
        Fin("ShutdownInstance", "instance_name", 299),
        Fin("ModifyInstance", "instance_name", 302),
        Fin("ModifyInstance", "instance_name", 305),
        FinRename("instance_name", "alternate_name", 308),
        FinRename("alternate_name", "instance_name", 311),
        Fin("DeactivateInstanceDisks", "instance_name", 313),
        Fin("ActivateInstanceDisks", "instance_name", 315),
        Fin("RecreateInstanceDisks", "instance_name", 317),
        Fin("StartupInstance", "instance_name", 320),
        Call("GetInstanceConsole", "instance_name", 323),
        Fin("ReinstallInstance", "instance_name", 325),
        FinDry("DeleteInstance", "instance_name", 328),
        Fin("DeleteInstance", "instance_name", 330) >>

Acquire(what, line) == Stmt("acquire", "", what, "", {}, FALSE, FALSE, line)
Release(what, line) == Stmt("release", "", what, "", {}, FALSE, FALSE, line)

\* Workload without the node.Release() of line 354
Workload_KeepsNode ==
  InSection(1, TestGetters)
  \o InSection(2, << Fin("RedistributeConfig", "", 345) >>)
  \o InSection(3, TestTags("GetClusterTags", "AddClusterTags",
                           "DeleteClusterTags", ""))
  \o InSection(4, << Acquire("node", 351) >>
                  \o TestTags("GetNodeTags", "AddNodeTags", "DeleteNodeTags",
                              "node"))
  \o InSection(5, RemoveAllInstances)
  \o InSection(6, << Acquire("nodes", 361), Acquire("instance_one", 362),
                     Acquire("instance_two", 363) >>
                  \o TestSingleInstance
                  \o << Release("instance_two", 366),
                        Release("instance_one", 367),
                        Release("nodes", 368) >>)

\* Workload(client), lines 342-368, in its six steps
Workload ==
  InSection(1, TestGetters)
  \o InSection(2, << Fin("RedistributeConfig", "", 345) >>)
  \o InSection(3, TestTags("GetClusterTags", "AddClusterTags",
                           "DeleteClusterTags", ""))
  \o InSection(4, << Acquire("node", 351) >>
                  \o TestTags("GetNodeTags", "AddNodeTags", "DeleteNodeTags",
                              "node")
                  \o << Release("node", 354) >>)
  \o InSection(5, RemoveAllInstances)
  \o InSection(6, << Acquire("nodes", 361), Acquire("instance_one", 362),
                     Acquire("instance_two", 363) >>
                  \o TestSingleInstance
                  \o << Release("instance_two", 366),
                        Release("instance_one", 367),
                        Release("nodes", 368) >>)

\* the statements run from each entry point
Program(h) ==
  CASE h = "Workload" -> Workload
    [] h = "TestTags" -> TestTags("GetClusterTags", "AddClusterTags",
                                  "DeleteClusterTags", "")
    [] h = "Finish" -> << FinDry("CreateInstance", "instance_name", 251) >>
    [] h = "Lookup" -> << >>

----------------------------------------------------------------------------
(* The state of a run. *)

Prog == Program(harness)
Running == exc = "" /\ pc \in DOMAIN Prog
Cur == Prog[pc]

\* the value of the local variable a statement names
Name(role) ==
  CASE role = "" -> "cluster"
    [] role = "node" -> lease.node
    [] role = "instance_name" -> lease.instance_one
    [] role = "alternate_name" -> lease.instance_two
    [] role = "inst" -> instances.s[idx]

\* the request a statement sends
Request(st) ==
  [op |-> st.op, name |-> Name(st.tgt),
   name2 |-> IF st.tgt2 = "" THEN "" ELSE Name(st.tgt2),
   tags |-> st.tags, dry |-> st.dry]

\* the request of client.WaitForJobCompletion(id) and client.GetJobStatus(id)
JobRequest(op) ==
  [op |-> op, name |-> "", name2 |-> "", tags |-> {}, dry |-> FALSE]

Responses(a) ==
  IF harness = "Finish" THEN DoubleResponses(cluster, lastjob, a)
  ELSE {x \in ClusterResponses(cluster, lastjob, a) :
          x.fault => faults < MaxFaults}

\* client.<op>(...) with a wrapper that calls the client's method a second
\* time when it raised GanetiApiError
ProxyResults_Retries(a) ==
  IF GetAttr(exposed, a.op) = "mock"
  THEN {[op |-> a.op, via |-> "mock", under |-> None, fault |-> FALSE,
         r |-> [MockMethod(cluster, lastjob) EXCEPT
                  !.out = <<<<"print", "Missing method", a.op>>>>]]}
  ELSE {[op |-> a.op, via |-> "invoker", under |-> x.val,
         fault |-> x.fault,
         r |-> LET d == decoratedFn(a.op, x)
               IN IF x.raised
                  THEN [d EXCEPT !.out = <<d.out[1], d.out[2], d.out[2],
                                            d.out[3]>>]
                  ELSE d] : x \in Responses(a)}

\* client.<op>(...): the lookup on the wrapper (lines 116-122) and the call
\* of what it yields.  Each result carries the value returned to the caller
\* (r.val), whether the client's method was reached (via) and what it
\* returned (under).
ProxyResults(a) ==
  IF GetAttr(exposed, a.op) = "mock"
  THEN {[op |-> a.op, via |-> "mock", under |-> None, fault |-> FALSE,
         r |-> [MockMethod(cluster, lastjob) EXCEPT
                  !.out = <<<<"print", "Missing method", a.op>>>>]]}
  ELSE {[op |-> a.op, via |-> "invoker", under |-> x.val,
         fault |-> x.fault,
         r |-> decoratedFn(a.op, x)] : x \in Responses(a)}

\* what ret records of a call through the wrapper
Returned(p) ==
  [op |-> p.op, via |-> p.via, val |-> p.r.val, raised |-> p.r.raised,
   under |-> p.under]

NoReturn == [op |-> "", via |-> "", val |-> None, raised |-> FALSE,
             under |-> None]
NoFinish == [op |-> "", val |-> None, done |-> FALSE, status |-> None]

\* the call served as the caller expects: forwarded and not rejected
Served(p) == p.via = "invoker" /\ ~p.r.raised

NoCount == [get |-> 0, add_dry |-> 0, add_real |-> 0, delete_dry |-> 0,
            delete_real |-> 0]

CountKey(st) ==
  CASE st.op \in TagReadOps -> "get"
    [] st.op \in TagAddOps -> IF st.dry THEN "add_dry" ELSE "add_real"
    [] st.op \in TagDeleteOps ->
         IF st.dry THEN "delete_dry" ELSE "delete_real"

\* Observation of a TestTags run: the statement st called its get_fn, add_fn
\* or delete_fn with proxy result p.
ObserveTags(st, p) ==
  IF st.tt = 0 THEN UNCHANGED <<tagcnt, clean, tag0>>
  ELSE LET first == st.tt = 1
       IN /\ tagcnt' = [IF first THEN NoCount ELSE tagcnt
                          EXCEPT ![CountKey(st)] = @ + 1]
          /\ clean' = ((first \/ clean) /\ Served(p)
                       /\ (st.op \in JobOps => p.r.job.ok))
          /\ tag0' = IF first THEN TagsOf(cluster, Name(st.tgt)) ELSE tag0

\* Observation of the job primitives Finish calls inside a TestTags run.
ObserveJob(st, p) ==
  /\ clean' = (clean /\ (st.tt > 0 => Served(p)))
  /\ UNCHANGED <<tagcnt, tag0>>

\* how often the events of a call reach the client's method
Invocations(events) ==
  Cardinality({i \in DOMAIN events : events[i][1] = "invoke"})

\* Observation of TestGetters: the statement st made a call with proxy
\* result p.
ObserveProbe(st, p) ==
  probed' = IF harness = "Workload" /\ st.sec = 1
            THEN Append(probed, [op |-> st.op, bulk |-> st.bulk,
                                 via |-> p.via,
                                 invoked |-> Invocations(p.r.out)])
            ELSE probed

\* the departures from a full, obliging client counted so far
Count(p) == faults' = IF p.fault THEN faults + 1 ELSE faults

\* the statement after the current one; the loop of line 225 stays on its
\* statement until the list is exhausted
Advance ==
  IF Cur.kind = "foreach" /\ idx < Len(instances.s)
  THEN /\ idx' = idx + 1
       /\ pc' = pc
  ELSE /\ idx' = 0
       /\ pc' = pc + 1

----------------------------------------------------------------------------
(* The statements. *)

\* A statement client.<op>(...) whose result is not used (lines 175-190,
\* 200-214, 272, 323).
CallStmt ==
  /\ Running /\ fpc = "idle" /\ Cur.kind = "call"
  /\ UNCHANGED removed
  /\ \E p \in ProxyResults(Request(Cur)) :
       /\ cluster' = p.r.cl
       /\ lastjob' = p.r.job
       /\ ret' = Returned(p)
       /\ Count(p)
       /\ out' = p.r.out
       /\ ObserveTags(Cur, p)
       /\ ObserveProbe(Cur, p)
       /\ IF p.r.escapes
          THEN exc' = "GanetiApiError" /\ pc' = pc
          ELSE exc' = exc /\ pc' = pc + 1
  /\ UNCHANGED <<harness, exposed, fpc, possible_job_id, success, instances,
                 idx, lease, held, fret, fcalls>>

NotAJobPrint == <<"print", "Finish called with a method not producing a job id">>

\* Finish, lines 135-146: call fn, try int() on what it returned, and return
\* that value when int() raises ValueError or TypeError.
FinishCall ==
  /\ Running /\ fpc = "idle" /\ Cur.kind \in {"finish", "foreach"}
  /\ removed' = IF Cur.kind = "foreach"
                THEN Append(removed, Request(Cur).name) ELSE removed
  /\ UNCHANGED probed
  /\ \E p \in ProxyResults(Request(Cur)) :
       LET v == p.r.val
           conv == IF p.r.escapes THEN "GanetiApiError" ELSE int(v)
       IN /\ cluster' = p.r.cl
          /\ lastjob' = p.r.job
          /\ ret' = Returned(p)
          /\ Count(p)
          /\ ObserveTags(Cur, p)
          /\ possible_job_id' = v
          /\ success' = None
          /\ fcalls' = <<[op |-> Cur.op, arg |-> None]>>
          /\ CASE conv = "ok" ->
                    /\ fpc' = "wait"
                    /\ fret' = [NoFinish EXCEPT !.op = Cur.op]
                    /\ out' = p.r.out
                    /\ UNCHANGED <<pc, idx, exc>>
               [] conv \in {"ValueError", "TypeError"} ->
                    /\ fpc' = "idle"
                    /\ fret' = [op |-> Cur.op, val |-> v, done |-> TRUE,
                                status |-> None]
                    /\ out' = IF v # None THEN Append(p.r.out, NotAJobPrint)
                              ELSE p.r.out
                    /\ Advance
                    /\ exc' = exc
               [] OTHER ->
                    /\ exc' = conv
                    /\ fret' = [NoFinish EXCEPT !.op = Cur.op]
                    /\ out' = p.r.out
                    /\ UNCHANGED <<pc, idx, fpc>>
  /\ UNCHANGED <<harness, exposed, instances, lease, held>>

\* Finish, line 148: success = client.WaitForJobCompletion(possible_job_id)
FinishWait ==
  /\ Running /\ fpc = "wait"
  /\ UNCHANGED <<probed, removed>>
  /\ \E p \in ProxyResults(JobRequest("WaitForJobCompletion")) :
       /\ cluster' = p.r.cl
       /\ lastjob' = p.r.job
       /\ ret' = Returned(p)
       /\ Count(p)
       /\ out' = p.r.out
       /\ ObserveJob(Cur, p)
       /\ success' = p.r.val
       /\ fcalls' = Append(fcalls, [op |-> "WaitForJobCompletion",
                                    arg |-> possible_job_id])
       /\ IF p.r.escapes
          THEN exc' = "GanetiApiError" /\ fpc' = fpc
          ELSE exc' = exc /\ fpc' = "status"
  /\ UNCHANGED <<harness, exposed, pc, possible_job_id, instances, idx,
                 lease, held, fret>>

\* status["opresult"][-1] in place of status["opresult"][0]
OpResult_Last(status) ==
  IF status.t # "dict" THEN [err |-> "TypeError", val |-> None]
  ELSE IF status.n # 1 THEN [err |-> "KeyError", val |-> None]
  ELSE IF status.s = <<>> THEN [err |-> "IndexError", val |-> None]
  ELSE [err |-> "", val |-> ObjV(status.s[Len(status.s)])]

\* status["opresult"][0] of line 150: the exception it raises ("" if none)
\* and its value
OpResult(status) ==
  IF status.t # "dict" THEN [err |-> "TypeError", val |-> None]
  ELSE IF status.n # 1 THEN [err |-> "KeyError", val |-> None]
  ELSE IF status.s = <<>> THEN [err |-> "IndexError", val |-> None]
  ELSE [err |-> "", val |-> ObjV(status.s[1])]

ErrorPrints(result) ==
  << <<"print", "Error encountered while performing operation: ">>,
     <<"print", result>> >>

\* Finish, lines 150-156: read the first "opresult" entry of the job status
\* and return it if success is true, None otherwise.
FinishStatus ==
  /\ Running /\ fpc = "status"
  /\ UNCHANGED <<probed, removed>>
  /\ \E p \in ProxyResults(JobRequest("GetJobStatus")) :
       LET result == OpResult(p.r.val)
           err == IF p.r.escapes THEN "GanetiApiError" ELSE result.err
       IN /\ cluster' = p.r.cl
          /\ lastjob' = p.r.job
          /\ ret' = Returned(p)
          /\ Count(p)
          /\ ObserveJob(Cur, p)
          /\ fcalls' = Append(fcalls, [op |-> "GetJobStatus",
                                       arg |-> possible_job_id])
          /\ IF err # ""
             THEN /\ exc' = err
                  /\ out' = p.r.out
                  /\ fret' = [fret EXCEPT !.status = p.r.val]
                  /\ UNCHANGED <<pc, idx, fpc>>
             ELSE /\ exc' = exc
                  /\ fpc' = "idle"
                  /\ fret' = [op |-> fret.op,
                              val |-> IF Truthy(success) THEN result.val
                                      ELSE None,
                              done |-> TRUE, status |-> p.r.val]
                  /\ out' = IF Truthy(success) THEN p.r.out
                            ELSE p.r.out \o ErrorPrints(result.val)
                  /\ Advance
  /\ UNCHANGED <<harness, exposed, possible_job_id, success, instances,
                 lease, held>>

\* whether Python can iterate over v and take len(v)
Sized(v) == v.t \in {"list", "str", "dict"}

\* RemoveAllInstances, lines 224-225: instances = client.GetInstances() and
\* the start of the loop over it.
ListInstances ==
  /\ Running /\ fpc = "idle" /\ Cur.kind = "list"
  /\ removed' = <<>>
  /\ UNCHANGED probed
  /\ \E p \in ProxyResults(Request(Cur)) :
       /\ cluster' = p.r.cl
       /\ lastjob' = p.r.job
       /\ ret' = Returned(p)
       /\ Count(p)
       /\ out' = p.r.out
       /\ instances' = p.r.val
       /\ IF p.r.escapes \/ ~Sized(p.r.val)
          THEN /\ exc' = IF p.r.escapes THEN "GanetiApiError" ELSE "TypeError"
               /\ UNCHANGED <<pc, idx>>
          ELSE /\ exc' = exc
               /\ IF p.r.val.s = <<>>
                  THEN pc' = pc + 2 /\ idx' = 0
                  ELSE pc' = pc + 1 /\ idx' = 1
  /\ UNCHANGED <<harness, exposed, fpc, possible_job_id, success, lease,
                 held, fret, fcalls, tagcnt, clean, tag0>>

\* RemoveAllInstances without the assertion of line 229
RecheckInstances_NoAssert ==
  /\ Running /\ fpc = "idle" /\ Cur.kind = "recheck"
  /\ UNCHANGED <<probed, removed>>
  /\ \E p \in ProxyResults(Request(Cur)) :
       /\ cluster' = p.r.cl
       /\ lastjob' = p.r.job
       /\ ret' = Returned(p)
       /\ Count(p)
       /\ out' = p.r.out
       /\ instances' = p.r.val
       /\ exc' = IF p.r.escapes THEN "GanetiApiError" ELSE exc
       /\ pc' = IF exc' = "" THEN pc + 1 ELSE pc
  /\ UNCHANGED <<harness, exposed, fpc, possible_job_id, success, idx, lease,
                 held, fret, fcalls, tagcnt, clean, tag0>>

\* RemoveAllInstances, lines 228-229: instances = client.GetInstances() and
\* assert len(instances) == 0.
RecheckInstances ==
  /\ Running /\ fpc = "idle" /\ Cur.kind = "recheck"
  /\ UNCHANGED <<probed, removed>>
  /\ \E p \in ProxyResults(Request(Cur)) :
       /\ cluster' = p.r.cl
       /\ lastjob' = p.r.job
       /\ ret' = Returned(p)
       /\ Count(p)
       /\ out' = p.r.out
       /\ instances' = p.r.val
       /\ exc' = IF p.r.escapes THEN "GanetiApiError"
                 ELSE IF ~Sized(p.r.val) THEN "TypeError"
                 ELSE IF Len(p.r.val.s) # 0 THEN "AssertionError"
                 ELSE exc
       /\ pc' = IF exc' = "" THEN pc + 1 ELSE pc
  /\ UNCHANGED <<harness, exposed, fpc, possible_job_id, success, idx, lease,
                 held, fret, fcalls, tagcnt, clean, tag0>>

\* the names a lease statement takes from the pool
Acquired(what) ==
  IF what \in {"node", "nodes"}
  THEN FirstFree(NodePool, held, IF what = "nodes" THEN 2 ELSE 1)
  ELSE FirstFree(InstancePool, held, 1)

\* the names the local variable of a lease statement holds
LeasedBy(what) ==
  CASE what = "node" -> {lease.node}
    [] what = "nodes" -> Range(lease.nodes)
    [] what = "instance_one" -> {lease.instance_one}
    [] what = "instance_two" -> {lease.instance_two}

\* Workload, lines 351 and 361-363: qa_config.AcquireNode(),
\* AcquireManyNodes(2), AcquireInstance()
AcquireLease ==
  /\ Running /\ fpc = "idle" /\ Cur.kind = "acquire"
  /\ UNCHANGED <<probed, removed>>
  /\ LET got == Acquired(Cur.tgt)
     IN /\ got # <<>>
        /\ lease' = CASE Cur.tgt = "node" -> [lease EXCEPT !.node = got[1]]
                      [] Cur.tgt = "nodes" -> [lease EXCEPT !.nodes = got]
                      [] Cur.tgt = "instance_one" ->
                           [lease EXCEPT !.instance_one = got[1]]
                      [] Cur.tgt = "instance_two" ->
                           [lease EXCEPT !.instance_two = got[1]]
        /\ held' = held \cup Range(got)
  /\ pc' = pc + 1
  /\ out' = <<>>
  /\ UNCHANGED <<harness, exposed, fpc, possible_job_id, success, instances,
                 idx, cluster, lastjob, ret, fret, exc, fcalls, tagcnt,
                 clean, tag0, faults>>

\* Workload, lines 354 and 366-368: Release() and ReleaseManyNodes(nodes)
ReleaseLease ==
  /\ Running /\ fpc = "idle" /\ Cur.kind = "release"
  /\ UNCHANGED <<probed, removed>>
  /\ held' = held \ LeasedBy(Cur.tgt)
  /\ pc' = pc + 1
  /\ out' = <<>>
  /\ UNCHANGED <<harness, exposed, fpc, possible_job_id, success, instances,
                 idx, lease, cluster, lastjob, ret, fret, exc, fcalls,
                 tagcnt, clean, tag0, faults>>

----------------------------------------------------------------------------
(* The specifications. *)

RECURSIVE SubsetsUpTo(_, _)
SubsetsUpTo(S, k) ==
  IF k = 0 THEN {{}}
  ELSE LET smaller == SubsetsUpTo(S, k - 1)
       IN smaller \cup {m \cup {x} : m \in smaller, x \in S}

\* the operations that only TestGetters calls; it drops what they return
ProbeOnlyOps ==
  {"GetVersion", "GetFeatures", "GetOperatingSystems", "GetInfo", "GetJobs",
   "GetNodes", "GetNetworks", "GetGroups"}

\* the clients of the Ganeti versions compared: all operations but a few
\* (one of those that only TestGetters calls, or up to MaxFaults of the
\* others), and the client that has GetVersion and GetInstances only
ClientVersions ==
  {OpNames \ m : m \in SubsetsUpTo(OpNames \ ProbeOnlyOps, MaxFaults)}
  \cup {OpNames \ {x} : x \in ProbeOnlyOps}
  \cup {{"GetVersion", "GetInstances"}}

\* the departures a client starts with: the operations it lacks
Lacking(ops) ==
  LET n == Cardinality(OpNames \ ops)
  IN IF n > MaxFaults THEN MaxFaults ELSE n

EmptyCluster ==
  [tags |-> [e \in {"cluster"} \cup Range(NodePool) |-> {}],
   insts |-> << >>]

InitLocals ==
  /\ pc = 1
  /\ fpc = "idle"
  /\ possible_job_id = None
  /\ success = None
  /\ instances = None
  /\ idx = 0
  /\ held = {}
  /\ lastjob = NoJob
  /\ ret = NoReturn
  /\ fret = NoFinish
  /\ exc = ""
  /\ fcalls = <<>>
  /\ tagcnt = NoCount
  /\ clean = FALSE
  /\ tag0 = {}
  /\ probed = <<>>
  /\ removed = <<>>
  /\ out = <<>>

\* Workload(client) against a cluster that may hold leftover instances
Init ==
  /\ harness = "Workload"
  /\ exposed \in ClientVersions
  /\ faults = Lacking(exposed)
  /\ lease = NoLease
  /\ \E left \in {{}, LeftoverInstances} :
       cluster = [EmptyCluster EXCEPT
                    !.insts = [n \in left |-> [up |-> TRUE, tags |-> {}]]]
  /\ InitLocals

Next ==
  \/ CallStmt
  \/ FinishCall
  \/ FinishWait
  \/ FinishStatus
  \/ ListInstances
  \/ RecheckInstances
  \/ AcquireLease
  \/ ReleaseLease

Spec == Init /\ [][Next]_vars

\* TestTags(client, client.GetClusterTags, client.AddClusterTags,
\* client.DeleteClusterTags) against a cluster with any tags
InitTags ==
  /\ harness = "TestTags"
  /\ exposed \in ClientVersions
  /\ faults = Lacking(exposed)
  /\ lease = NoLease
  /\ \E t0 \in SUBSET StartTags :
       cluster = [EmptyCluster EXCEPT !.tags["cluster"] = t0]
  /\ InitLocals

NextTags ==
  \/ CallStmt
  \/ FinishCall
  \/ FinishWait
  \/ FinishStatus

SpecTags == InitTags /\ [][NextTags]_vars

\* Finish(client, client.CreateInstance, ...) against a test double
InitFinish ==
  /\ harness = "Finish"
  /\ exposed \in SUBSET {"CreateInstance", "WaitForJobCompletion",
                         "GetJobStatus"}
  /\ faults = 0
  /\ lease = [NoLease EXCEPT !.instance_one = InstancePool[1]]
  /\ cluster = EmptyCluster
  /\ InitLocals

NextFinish ==
  \/ FinishCall
  \/ FinishWait
  \/ FinishStatus

SpecFinish == InitFinish /\ [][NextFinish]_vars

\* One attribute lookup on a wrapper, for every name and for clients that
\* have or lack the operations and the private names looked up.
InitLookup ==
  /\ harness = "Lookup"
  /\ exposed \in SUBSET {"GetVersion", "GetInstances", "_client", "_missing"}
  /\ faults = 0
  /\ lease = NoLease
  /\ cluster = EmptyCluster
  /\ InitLocals

\* getattr(client, attr) on the wrapper
LookupAttr ==
  /\ harness = "Lookup"
  /\ \E attr \in AttrNames :
       ret' = [NoReturn EXCEPT !.op = attr, !.via = Lookup(exposed, attr)]
  /\ UNCHANGED <<harness, exposed, pc, fpc, possible_job_id, success,
                 instances, idx, lease, held, cluster, lastjob, fret, exc,
                 fcalls, tagcnt, clean, faults, tag0, probed, removed, out>>

NextLookup == LookupAttr

SpecLookup == InitLookup /\ [][NextLookup]_vars

TypeOK ==
  /\ harness \in {"Workload", "TestTags", "Finish", "Lookup"}
  /\ exposed \subseteq OpNames \cup PrivateNames
  /\ pc \in 1..(Len(Prog) + 1)
  /\ fpc \in {"idle", "wait", "status"}
  /\ held \subseteq Range(NodePool) \cup Range(InstancePool)

----------------------------------------------------------------------------
(* Properties. *)

\* the operation the next statement calls through the wrapper, "" if none
ProxyOp ==
  IF ~Running THEN ""
  ELSE IF fpc = "wait" THEN "WaitForJobCompletion"
  ELSE IF fpc = "status" THEN "GetJobStatus"
  ELSE Cur.op

Invoked(events) == \E i \in DOMAIN events : events[i][1] = "invoke"

\* Finish has left: it returned, or an exception left it
FinishEnded == fret.op # "" /\ (fret.done \/ exc # "")

\* the calls Finish makes for a job id
JobCalls(op, id) ==
  << [op |-> op, arg |-> None],
     [op |-> "WaitForJobCompletion", arg |-> id],
     [op |-> "GetJobStatus", arg |-> id] >>

\* C1: a call through the wrapper of an operation the client lacks is
\* answered by MockMethod: it returns None, it raises nothing, the client's
\* method is not reached, and neither the cluster nor its jobs change.
C1_MockIsInert ==
  [][(ProxyOp # "" /\ ProxyOp \notin exposed /\ ~StartsWithUnderscore(ProxyOp))
       => /\ ret' = [op |-> ProxyOp, via |-> "mock", val |-> None,
                     raised |-> FALSE, under |-> None]
          /\ exc' # "GanetiApiError"
          /\ ~Invoked(out')
          /\ cluster' = cluster
          /\ lastjob' = lastjob
          /\ held' = held]_vars

C1_Witness ==
  /\ ret.via = "mock" /\ ret.val = None
  /\ ret.op \notin exposed

\* C2: a call through the wrapper of an operation the client has returns
\* None when the client's method raises GanetiApiError, and no exception
\* leaves the wrapper; it returns the value of the client's method otherwise.
C2_InvokerAbsorbs ==
  ret.via = "invoker" =>
    /\ ret.op \in exposed
    /\ exc # "GanetiApiError"
    /\ ret.raised => ret.val = None
    /\ ~ret.raised => ret.val = ret.under

C2_Witness ==
  /\ ret.via = "invoker" /\ ret.raised /\ ret.val = None
  /\ exc = ""

\* C3: when fn returns a native integer or a string of digits, Finish calls
\* fn, then WaitForJobCompletion with that value, then GetJobStatus with that
\* value, once each, and makes no other call.
C3_JobCallsOnce ==
  (fret.op # "" /\ (IsNativeInt(possible_job_id)
                    \/ IsDigitString(possible_job_id)))
    => LET calls == JobCalls(fret.op, possible_job_id)
       IN /\ fpc = "wait" /\ exc = "" => fcalls = SubSeq(calls, 1, 1)
          /\ fpc = "status" /\ exc = "" => fcalls = SubSeq(calls, 1, 2)
          /\ fpc = "idle" => fret.done
          /\ FinishEnded => fcalls = calls

C3_Witness ==
  /\ fret.done /\ IsDigitString(possible_job_id)
  /\ fcalls = JobCalls("CreateInstance", possible_job_id)

\* C4: when fn returns a value that is neither a native integer nor a string
\* of digits, Finish returns that value and calls neither WaitForJobCompletion
\* nor GetJobStatus.
C4_OthersReturned ==
  (fret.op # "" /\ ~IsNativeInt(possible_job_id)
                /\ ~IsDigitString(possible_job_id))
    => /\ fret.done /\ exc = ""
       /\ fret.val = possible_job_id
       /\ Len(fcalls) = 1

\* C5: when fn returns a job id and the wait reports failure, Finish returns
\* None and no exception leaves it, whatever the wait and status calls gave.
C5_FailureReturnsNone ==
  (fret.op # "" /\ Len(fcalls) = 3 /\ ~Truthy(success))
    => /\ exc = ""
       /\ fret.done
       /\ fret.val = None

\* C6: when fn returns a job id and the wait reports success, Finish returns
\* the first entry of the "opresult" list of the job status.
C6_SuccessReturnsFirst ==
  (fret.done /\ Len(fcalls) = 3 /\ Truthy(success))
    => /\ fret.status.t = "dict" /\ fret.status.s # <<>>
       /\ fret.val = ObjV(fret.status.s[1])

C6_Witness ==
  /\ fret.done /\ Truthy(success)
  /\ possible_job_id = StrV(<<"4", "2">>)
  /\ fret.status = DictV(TRUE, <<"created-ok", "other">>)
  /\ fret.val = ObjV("created-ok")

\* a run of TestTags from its entry point has completed
TagsDone == harness = "TestTags" /\ pc = Len(Prog) + 1 /\ exc = ""

\* the statement numbered k of TestTags has just been executed
AfterTagStmt(k) ==
  /\ exc = "" /\ fpc = "idle"
  /\ pc - 1 \in DOMAIN Prog
  /\ Prog[pc - 1].tt = k

\* C7 as stated: a complete run of TestTags calls get five times, add twice
\* (one dry run, one real) and delete twice (one dry run, one real).
C7_FiveGetsTwoDeletes ==
  TagsDone => /\ tagcnt.get = 5
              /\ tagcnt.add_dry = 1 /\ tagcnt.add_real = 1
              /\ tagcnt.delete_dry = 1 /\ tagcnt.delete_real = 1

\* C7 amended: a complete run of TestTags calls get four times, add twice
\* (one dry run, one real) and delete three times (one dry run, two real).
C7_FourGetsThreeDeletes ==
  TagsDone => tagcnt = [get |-> 4, add_dry |-> 1, add_real |-> 1,
                        delete_dry |-> 1, delete_real |-> 2]

C7_Witness == TagsDone /\ tagcnt.get = 4 /\ tagcnt.delete_real = 2

\* the tags read by the get statement just executed
TagsRead == Range(ret.val.s)

\* C8 as stated: when every call of the run is served and succeeds, TestTags
\* leaves the tag set as it found it; the set read after the real add holds
\* the three tags, the set read after the first real delete holds exactly
\* tag2 and tag3 beyond the set found.
C8_TagsRestored ==
  /\ TagsDone /\ clean => TagsOf(cluster, "cluster") = tag0
  /\ AfterTagStmt(4) /\ clean => Range(ScenarioTags) \subseteq TagsRead
  /\ AfterTagStmt(7) /\ clean => TagsRead \ tag0 = OtherTags

\* C8 amended: when every call of the run is served and succeeds, TestTags
\* leaves the tag set it found less the three tags of the scenario; the set
\* read after the real add is the set found plus the three tags, the set
\* read after the first real delete is that set less tag1.
C8_ScenarioTagsRemoved ==
  /\ TagsDone /\ clean =>
       TagsOf(cluster, "cluster") = tag0 \ Range(ScenarioTags)
  /\ AfterTagStmt(4) /\ clean => TagsRead = tag0 \cup Range(ScenarioTags)
  /\ AfterTagStmt(7) /\ clean =>
       TagsRead = (tag0 \cup Range(ScenarioTags)) \ FirstTag

C8_Witness ==
  /\ TagsDone /\ clean
  /\ tag0 = {"tag0"} /\ TagsOf(cluster, "cluster") = {"tag0"}

\* Workload has left: it ran to its end, or an exception left it
WorkloadEnded ==
  harness = "Workload" /\ (pc = Len(Prog) + 1 \/ exc # "")

\* C9: when Workload has left, by its end or by an exception, no lease is
\* outstanding in the pool.
C9_LeasesReleased == WorkloadEnded => held = {}

\* C10: no exception leaves Workload, whichever operations are missing or
\* rejected.
C10_NoException == harness = "Workload" => exc = ""

----------------------------------------------------------------------------
(* RemoveAllInstances and the start of the instance scenario. *)

\* the position of the second GetInstances of RemoveAllInstances (line 228)
RecheckAt == CHOOSE i \in DOMAIN Workload : Workload[i].kind = "recheck"

\* TestSingleInstance is about to make its first call (line 251)
ScenarioStarts ==
  /\ harness = "Workload" /\ Running /\ fpc = "idle"
  /\ Cur.sec = 6 /\ Cur.line = 251

\* C11: RemoveAllInstances passes to DeleteInstance, through Finish, each
\* name of the first GetInstances once and in order; control is past the
\* second GetInstances only if it returned an empty collection; and when
\* TestSingleInstance starts the cluster holds no instance.
C11_NoInstanceAtStart ==
  harness = "Workload" =>
    /\ Running /\ Cur.kind = "foreach" =>
         removed = SubSeq(instances.s, 1,
                          IF fpc = "idle" THEN idx - 1 ELSE idx)
    /\ Running /\ Cur.kind = "recheck" => removed = instances.s
    /\ pc > RecheckAt => instances = ListV(<<>>)
    /\ ScenarioStarts => DOMAIN cluster.insts = {}

\* both leftover instances were deleted and TestSingleInstance starts
C11_Witness == ScenarioStarts /\ Len(removed) = 2

----------------------------------------------------------------------------
(* The end of the instance scenario. *)

\* the position of the last call of TestSingleInstance (line 330)
LastDeleteAt ==
  CHOOSE i \in DOMAIN Workload :
    Workload[i].sec = 6 /\ Workload[i].line = 330

\* TestSingleInstance has run to its end
ScenarioOver == harness = "Workload" /\ exc = "" /\ pc > LastDeleteAt

\* what client.GetInstances() would return now
Listing ==
  Range(ReadValue(cluster, [op |-> "GetInstances", name |-> "", name2 |-> "",
                            tags |-> {}, dry |-> FALSE]).s)

\* after the scenario the listing holds neither hostname of the scenario,
\* and at the end of Workload it holds nothing
InstanceFree ==
  /\ Listing \cap Range(InstancePool) = {}
  /\ pc = Len(Prog) + 1 => Listing = {}

----------------------------------------------------------------------------
(* TestGetters with a client of two operations. *)

\* the client that has GetVersion and GetInstances and nothing else
ProbeClient == {"GetVersion", "GetInstances"}

\* TestGetters has returned
ProbeDone == harness = "Workload" /\ pc > Len(TestGetters)

ReachedClient(e) == e.invoked > 0
AnsweredByMock(e) == e.via = "mock" /\ e.invoked = 0

\* C13: with a client of GetVersion and GetInstances only, TestGetters
\* raises nothing and returns; the calls that reached the client are, in
\* order, GetVersion(), GetInstances() and GetInstances(bulk=True), once
\* each; the other twelve calls were answered by the mock method.
C13_ProbeWithTwoOperations ==
  harness = "Workload" /\ exposed = ProbeClient =>
    /\ ~ProbeDone => exc = ""
    /\ ProbeDone =>
         /\ SelectSeq(probed, ReachedClient) =
              << [op |-> "GetVersion", bulk |-> FALSE,
                  via |-> "invoker", invoked |-> 1],
                 [op |-> "GetInstances", bulk |-> FALSE,
                  via |-> "invoker", invoked |-> 1],
                 [op |-> "GetInstances", bulk |-> TRUE,
                  via |-> "invoker", invoked |-> 1] >>
         /\ Len(SelectSeq(probed, AnsweredByMock)) = 12
         /\ Len(probed) = 12 + 3

\* TestGetters has just returned to Workload with that client
C13_Witness ==
  /\ harness = "Workload" /\ exposed = ProbeClient
  /\ pc = Len(TestGetters) + 1 /\ Len(probed) = Len(TestGetters)

----------------------------------------------------------------------------
(* The steps of Workload and the leases. *)

\* the step of Workload that control is in; 7 once Workload has returned
Section == IF pc \in DOMAIN Prog THEN Cur.sec ELSE 7

\* the names leased for the instance scenario (lines 361-363)
ScenarioLeases ==
  Range(lease.nodes) \cup {lease.instance_one, lease.instance_two}

LeasesBySection ==
  harness = "Workload" =>
    /\ Section \in {1, 2, 3, 5, 7} => held = {}
    /\ Section = 4 =>
         /\ held \subseteq {lease.node}
         /\ Cur.tt > 0 => held = {lease.node}
    /\ Section = 6 =>
         /\ held \subseteq ScenarioLeases
         /\ Cur.kind \in {"call", "finish"} =>
              held = ScenarioLeases /\ Cardinality(held) = 4
    /\ Cardinality(held) <= 4

SectionOrder ==
  harness = "Workload" => Section' \in {Section, Section + 1}

\* C14: control passes through the steps of Workload in the order probe,
\* RedistributeConfig, cluster tagging, node tagging, removal of all
\* instances, instance lifecycle; one node is leased during node tagging
\* and only then, the two nodes and two instance names of the scenario are
\* leased during the instance lifecycle and only then, nothing is leased
\* in the other steps, and never more than four names are leased.
C14_OrderAndLeases == []LeasesBySection /\ [][SectionOrder]_vars

\* the instance scenario is under way with its four leases
C14_Witness ==
  /\ harness = "Workload" /\ Running /\ Cur.sec = 6
  /\ Cur.op = "RecreateInstanceDisks" /\ Cardinality(held) = 4

----------------------------------------------------------------------------
(* The log and the client's method. *)

\* the step that calls an operation the client has, through the wrapper
LogThenInvokeOnce ==
  ProxyOp \in exposed =>
    /\ Len(out') >= 2
    /\ out'[1] = <<"print", "Using method", ProxyOp>>
    /\ out'[2] = <<"invoke", ProxyOp>>
    /\ Invocations(out') = 1
    /\ ret'.op = ProxyOp /\ ret'.via = "invoker"

\* C15: a call through the wrapper of an operation the client has first
\* prints the line that names the operation, then invokes the client's
\* method, and invokes it once, also when it raises GanetiApiError.
C15_LogThenInvokeOnce == [][LogThenInvokeOnce]_vars

\* a call whose method raised GanetiApiError after the line was printed
C15_Witness ==
  /\ ret.via = "invoker" /\ ret.raised
  /\ Len(out) = 3 /\ out[1] = <<"print", "Using method", ret.op>>
  /\ out[2] = <<"invoke", ret.op>> /\ Invocations(out) = 1

----------------------------------------------------------------------------
(* The instance scenario on a cluster that serves every call. *)

\* control is in TestSingleInstance and every call so far was served
ScenarioServed ==
  /\ harness = "Workload" /\ faults = 0 /\ Running
  /\ Cur.sec = 6 /\ Cur.kind \in {"call", "finish"}

\* the next statement is about to issue its call
Issuing == ScenarioServed /\ fpc = "idle"

\* the position in Workload of the statement of TestSingleInstance at line l
ScenarioAt(l) ==
  CHOOSE i \in DOMAIN Workload :
    Workload[i].sec = 6 /\ Workload[i].tt = 0 /\ Workload[i].line = l

Exists(n) == n \in DOMAIN cluster.insts
PoweredOn(n) == Exists(n) /\ cluster.insts[n].up
PoweredOff(n) == Exists(n) /\ ~cluster.insts[n].up

PoweredOffOps ==
  {"ModifyInstance", "RenameInstance", "DeactivateInstanceDisks",
   "ActivateInstanceDisks", "RecreateInstanceDisks"}
PoweredOnOps == {"GetInstanceConsole", "ReinstallInstance"}

\* how many statements of TestSingleInstance call op
ScenarioCalls(op) ==
  Cardinality({i \in DOMAIN TestSingleInstance :
                 TestSingleInstance[i].op = op})

\* C16: on a cluster that serves every call, the instance is running from
\* the first dry-run power call (line 284) until the real reboot (line 296)
\* is issued; the two ModifyInstance, the two RenameInstance, the
\* DeactivateInstanceDisks, ActivateInstanceDisks and RecreateInstanceDisks
\* calls are issued after the real ShutdownInstance (line 299) and before
\* the real StartupInstance (line 320), on an instance that is powered
\* off; GetInstanceConsole and ReinstallInstance are issued after the real
\* StartupInstance.
C16_PowerPhases ==
  /\ ScenarioCalls("ModifyInstance") = 2
  /\ ScenarioCalls("RenameInstance") = 2
  /\ ScenarioServed =>
       /\ (Cur.line \in {284, 288, 292} \/ (Cur.line = 296 /\ fpc = "idle"))
            => PoweredOn(lease.instance_one)
       /\ (fpc = "idle" /\ Cur.op \in PoweredOffOps) =>
            /\ ScenarioAt(299) < pc /\ pc < ScenarioAt(320)
            /\ PoweredOff(Name(Cur.tgt))
       /\ (fpc = "idle" /\ Cur.op \in PoweredOnOps) =>
            /\ ScenarioAt(320) < pc
            /\ PoweredOn(Name(Cur.tgt))

\* the last call on the powered-off instance is about to be issued
C16_Witness ==
  /\ Issuing /\ Cur.op = "RecreateInstanceDisks"
  /\ PoweredOff(lease.instance_one)

----------------------------------------------------------------------------
(* The hostnames of the instance scenario. *)

\* control is in the instance step of Workload and every call so far was
\* served
InScenario ==
  harness = "Workload" /\ faults = 0 /\ Running /\ Cur.sec = 6

\* the first RenameInstance has been issued and the second has not
BetweenRenames ==
  \/ Cur.line = 308 /\ fpc # "idle"
  \/ Cur.line = 311 /\ fpc = "idle"

\* C17: on a cluster that serves every call, a real CreateInstance is
\* issued only for a hostname that does not exist; every other call of the
\* scenario is a dry run or names a hostname that exists when it is issued;
\* the alternate hostname exists exactly between the two RenameInstance
\* calls; and at most one instance exists at any time.
C17_HostnamesExist ==
  InScenario =>
    /\ (Issuing /\ Cur.op = "CreateInstance" /\ ~Cur.dry)
         => ~Exists(Name(Cur.tgt))
    /\ (Issuing /\ Cur.op # "CreateInstance")
         => (Cur.dry \/ Exists(Name(Cur.tgt)))
    /\ Exists(lease.instance_two) <=> BetweenRenames
    /\ Cardinality(DOMAIN cluster.insts) <= 1

\* the instance carries the alternate hostname and the rename back is next
C17_Witness ==
  /\ InScenario /\ Issuing /\ Cur.line = 311
  /\ DOMAIN cluster.insts = {lease.instance_two}

----------------------------------------------------------------------------
(* Finish and a call that the wrapper absorbed. *)

NotAJobLogged(events) == \E i \in DOMAIN events : events[i] = NotAJobPrint

\* int() returns for the value
IntegerLike(v) == int(v) = "ok"

\* the step of Finish that calls fn (line 135) and looks at what it returned
AbsorbedReturnsNone ==
  (Running /\ fpc = "idle" /\ Cur.kind \in {"finish", "foreach"}) =>
    /\ (ret'.via = "mock" \/ ret'.raised) =>
         /\ fret'.done /\ fret'.val = None
         /\ fpc' = "idle" /\ Len(fcalls') = 1
         /\ ~NotAJobLogged(out')
    /\ NotAJobLogged(out') <=>
         (~IntegerLike(possible_job_id') /\ possible_job_id' # None)

\* C18: when fn was answered by the mock method or its GanetiApiError was
\* caught by the wrapper, Finish returns None, calls neither
\* WaitForJobCompletion nor GetJobStatus and does not print 'Finish called
\* with a method not producing a job id'; that line is printed if and only
\* if the value fn returned is not integer-like and is not None.
C18_AbsorbedReturnsNone == [][AbsorbedReturnsNone]_vars

----------------------------------------------------------------------------
(* Private names. *)

\* C19: the lookup of a name that begins with an underscore is not forwarded
\* to the client and does not yield the mock method, whatever the client
\* has: it is resolved on the wrapper, and for a name the wrapper lacks it
\* ends with AttributeError, not in an endless recursion.
C19_PrivateNamesStayHome ==
  (harness = "Lookup" /\ StartsWithUnderscore(ret.op)) =>
    /\ ret.via \notin {"invoker", "mock", "RuntimeError"}
    /\ ret.via = IF ret.op \in OwnAttrs THEN "found" ELSE "AttributeError"

\* a private name that the wrapper lacks and the client has was looked up
C19_Witness ==
  /\ harness = "Lookup" /\ ret.op = "_missing" /\ ret.op \in exposed
  /\ ret.via = "AttributeError"

====
